---- MODULE Spec2Model ----
(***************************************************************************)
(* The struct extractors and renderers of src/misc: gen_js_api.py,         *)
(* make_idl.py and generate_javascript.py.                                 *)
(*                                                                         *)
(* A Python str is modelled as a sequence of one-character strings, so     *)
(* that strip, slicing, split, startswith and endswith are computed        *)
(* character by character, as the scripts compute them.  A printed line    *)
(* is a record [kind, w, name]: the f-string template that produced it     *)
(* (kind), the byte width it carries (w) and the name interpolated in it.  *)
(***************************************************************************)
EXTENDS Integers, Sequences, FiniteSets, TLC

\* ------------------------------------------------------------- bounds
\* longest file (in lines) handed to parse_structs on its own
MaxLines == 4
\* most field lines in src/state.rs
MaxFields == 3
\* the interpreter's recursion limit, in frames of generate_*
RecursionLimit == 4
\* longest file (in lines) handed to parse_instruction_accounts
MaxAccountLines == 4

VARIABLES
    script,       \* the driver being run
    decls,        \* the declarations written in src/state.rs
    lines,        \* f.readlines()
    lineno,       \* position of the for loop over lines
    found,        \* parse_structs / parse_instruction_accounts: found
    struct_name,  \* parse_structs: struct_name (the target name in parse_instruction_accounts)
    structs,      \* the module-level registry, in insertion order
    si,           \* main: position of the for loop over structs
    ai,           \* main: which artifact of structs[si] is being emitted
    stack,        \* the call stack of generate_*: frames [name, k]
    out,          \* standard output, one entry per printed line
    accounts,     \* parse_instruction_accounts: accounts
    lk,           \* one call of a lookup function: [which, t, n, res]
    err,          \* the exception that ended the run, or NoErr
    pc            \* where the run is

vars ==
    <<script, decls, lines, lineno, found, struct_name, structs, si, ai,
      stack, out, accounts, lk, err, pc>>

\* ------------------------------------------------------------ literals
\* ': '
S_sep ==
    <<":"," ">>
\* '//'
S_comment ==
    <<"/","/">>
\* '}'
S_close ==
    <<"}">>
\* "<'a>"
S_life ==
    <<"<","'","a",">">>
\* 'pub struct'
S_pub_struct ==
    <<"p","u","b"," ","s","t","r","u","c","t">>
\* 'pub struct '
S_pub_struct_sp ==
    <<"p","u","b"," ","s","t","r","u","c","t"," ">>
\* '// '
S_cmt_sp ==
    <<"/","/"," ">>
\* ', '
S_comma_sp ==
    <<","," ">>
\* 'writable'
S_writable ==
    <<"w","r","i","t","a","b","l","e">>
\* 'signer'
S_signer ==
    <<"s","i","g","n","e","r">>
\* ' {\n'
S_open ==
    <<" ","{","\n">>
\* '    pub '
S_indent_pub ==
    <<" "," "," "," ","p","u","b"," ">>
\* ',\n'
S_comma_nl ==
    <<",","\n">>
\* 'u64'
T_u64 ==
    <<"u","6","4">>
\* 'u32'
T_u32 ==
    <<"u","3","2">>
\* 'f32'
T_f32 ==
    <<"f","3","2">>
\* 'u8'
T_u8 ==
    <<"u","8">>
\* 'bool'
T_bool ==
    <<"b","o","o","l">>
\* 'Pubkey'
T_Pubkey ==
    <<"P","u","b","k","e","y">>
\* 'String'
T_String ==
    <<"S","t","r","i","n","g">>
\* '[u8; 64]'
T_arr64 ==
    <<"[","u","8",";"," ","6","4","]">>
\* '[u8; MAX_NAME_SIZE_B]'
T_arrmax ==
    <<"[","u","8",";"," ","M","A","X","_","N","A","M","E","_","S","I","Z","E","_","B","]">>
\* 'f128': a token no lookup knows
T_f128 ==
    <<"f","1","2","8">>
\* 'Foo'
N_Foo ==
    <<"F","o","o">>
\* 'Bar'
N_Bar ==
    <<"B","a","r">>
\* 'CancelAccounts'
N_CancelAccounts ==
    <<"C","a","n","c","e","l","A","c","c","o","u","n","t","s">>
\* 'InitializeAccounts'
N_InitializeAccounts ==
    <<"I","n","i","t","i","a","l","i","z","e","A","c","c","o","u","n","t","s">>
\* 'WithdrawAccounts'
N_WithdrawAccounts ==
    <<"W","i","t","h","d","r","a","w","A","c","c","o","u","n","t","s">>
\* 'TransferAccounts'
N_TransferAccounts ==
    <<"T","r","a","n","s","f","e","r","A","c","c","o","u","n","t","s">>

\* Python's None where a str is expected: no str equals it
NoneVal ==
    <<"None">>

\* no exception
NoErr ==
    [type |-> "none", text |-> "", args |-> <<>>]

\* ------------------------------------------------------- printed lines
\* one printed line
Line(kind, w, name) ==
    [kind |-> kind, w |-> w, name |-> name]

\* a lookup's "return None"
None ==
    Line("None", 0, <<>>)

\* a lookup's 'return " "': a line of blanks
Blank ==
    Line(" ", 0, <<>>)

\* "if bl:": None and the empty string are false, every other string is true
Truthy(d) ==
    d # None

\* ---------------------------------------------------- str operations
\* the characters str.strip() and str.split() treat as whitespace
Whitespace ==
    {" ", "\n", "\t"}

\* s.startswith(p)
StartsWith(s, p) ==
    Len(s) >= Len(p) /\ SubSeq(s, 1, Len(p)) = p

\* s.endswith(p)
EndsWith(s, p) ==
    Len(s) >= Len(p) /\ SubSeq(s, Len(s) - Len(p) + 1, Len(s)) = p

RECURSIVE LStrip(_)
LStrip(s) ==
    IF s # <<>> /\ Head(s) \in Whitespace THEN LStrip(Tail(s)) ELSE s

RECURSIVE RStrip(_)
RStrip(s) ==
    IF s # <<>> /\ s[Len(s)] \in Whitespace
    THEN RStrip(SubSeq(s, 1, Len(s) - 1))
    ELSE s

\* s.strip()
Strip(s) ==
    RStrip(LStrip(s))

\* s[a:len(s)-b] for a, b >= 0: s[4:-1] is Slice(s, 4, 1), s[4:] is Slice(s, 4, 0)
Slice(s, a, b) ==
    IF a + 1 > Len(s) - b THEN <<>> ELSE SubSeq(s, a + 1, Len(s) - b)

\* s.find(sep) from position k on, 1-based; 0 when sep does not occur
RECURSIVE FindFrom(_, _, _)
FindFrom(s, sep, k) ==
    IF k + Len(sep) - 1 > Len(s) THEN 0
    ELSE IF SubSeq(s, k, k + Len(sep) - 1) = sep THEN k
    ELSE FindFrom(s, sep, k + 1)

\* sep in s
Contains(s, sep) ==
    FindFrom(s, sep, 1) # 0

\* s.split(sep)
RECURSIVE Split(_, _)
Split(s, sep) ==
    LET k == FindFrom(s, sep, 1)
    IN  IF k = 0 THEN <<s>>
        ELSE <<SubSeq(s, 1, k - 1)>> \o Split(Slice(s, k + Len(sep) - 1, 0), sep)

\* length of the leading run of non-whitespace characters of s
RECURSIVE WordLen(_)
WordLen(s) ==
    IF s = <<>> \/ Head(s) \in Whitespace THEN 0 ELSE 1 + WordLen(Tail(s))

\* s.split()
RECURSIVE SplitWS(_)
SplitWS(s) ==
    LET t == LStrip(s)
    IN  IF t = <<>> THEN <<>>
        ELSE <<SubSeq(t, 1, WordLen(t))>> \o SplitWS(Slice(t, WordLen(t), 0))

\* the elements of a list
Range(s) ==
    {s[k] : k \in 1..Len(s)}

\* ------------------------------------------------- the registry (a dict)
\* name in structs
Has(reg, n) ==
    \E k \in 1..Len(reg) : reg[k].name = n

\* structs[name]
Get(reg, n) ==
    reg[CHOOSE k \in 1..Len(reg) : reg[k].name = n].fields

\* structs[name] = v: a new key goes last, an old key keeps its place
SetItem(reg, n, v) ==
    IF Has(reg, n)
    THEN [k \in 1..Len(reg) |->
            IF reg[k].name = n THEN [name |-> n, fields |-> v] ELSE reg[k]]
    ELSE Append(reg, [name |-> n, fields |-> v])

\* ------------------------------------------------------ parse_structs
\* the lifetime strip: if s.endswith("<'a>"): s = s[:-4]
StripLifetime(s) ==
    IF EndsWith(s, S_life) THEN Slice(s, 0, Len(S_life)) ELSE s

\* a line skipped as a field line although the scanner is inside a struct
IsFieldLineSkipBlank(f, i) ==
    /\ f
    /\ Strip(i) # <<>>
    /\ ~StartsWith(Strip(i), S_comment)
    /\ ~StartsWith(Strip(i), S_close)

\* a struct-start line is not a field line
IsFieldLineNotStart(f, i) ==
    /\ f
    /\ ~StartsWith(i, S_pub_struct)
    /\ ~StartsWith(Strip(i), S_comment)
    /\ ~StartsWith(Strip(i), S_close)

\* the guard of the field branch
IsFieldLine(f, i) ==
    /\ f
    /\ ~StartsWith(Strip(i), S_comment)
    /\ ~StartsWith(Strip(i), S_close)

\* element = i.strip()[4:-1], lifetime stripped
FieldElement(i) ==
    StripLifetime(Slice(Strip(i), 4, 1))

\* what the tuple unpacking of a list of n values into two names raises
UnpackError(n) ==
    [type |-> "ValueError",
     text |-> IF n < 2 THEN "not enough values to unpack (expected 2, got 1)"
              ELSE "too many values to unpack (expected 2)",
     args |-> <<>>]

\* what indexing a list past its end raises
IndexError ==
    [type |-> "IndexError", text |-> "list index out of range", args |-> <<>>]

\* one iteration of the for loop of parse_structs over line i
parse_structs_body(f, sn, reg, i) ==
    LET isField  == IsFieldLine(f, i)
        parts    == Split(FieldElement(i), S_sep)
        reg1     == IF isField /\ Len(parts) = 2
                    THEN SetItem(reg, sn, Append(Get(reg, sn), <<parts[1], parts[2]>>))
                    ELSE reg
        isStart  == StartsWith(i, S_pub_struct)
        toks     == SplitWS(i)
        f1       == IF isStart THEN TRUE ELSE f
        sn1      == IF isStart /\ Len(toks) >= 3 THEN StripLifetime(toks[3]) ELSE sn
        reg2     == IF isStart /\ Len(toks) >= 3 THEN SetItem(reg1, sn1, <<>>) ELSE reg1
        f2       == IF StartsWith(i, S_close) THEN FALSE ELSE f1
    IN  IF isField /\ Len(parts) # 2
        THEN [found |-> f, struct_name |-> sn, structs |-> reg,
              err |-> UnpackError(Len(parts))]
        ELSE IF isStart /\ Len(toks) < 3
        THEN [found |-> f1, struct_name |-> sn, structs |-> reg1, err |-> IndexError]
        ELSE [found |-> f2, struct_name |-> sn1, structs |-> reg2, err |-> NoErr]

\* parse_structs: the next line of the file is scanned
ParseLine ==
    /\ pc = "parse"
    /\ lineno <= Len(lines)
    /\ LET r == parse_structs_body(found, struct_name, structs, lines[lineno])
       IN  /\ found' = r.found
           /\ struct_name' = r.struct_name
           /\ structs' = r.structs
           /\ err' = r.err
           /\ pc' = IF r.err = NoErr THEN "parse" ELSE "aborted"
           /\ lineno' = IF r.err = NoErr THEN lineno + 1 ELSE lineno
    /\ UNCHANGED <<script, decls, lines, si, ai, stack, out, accounts, lk>>

\* parse_structs: the for loop is over and the function returns
ParseReturn ==
    /\ pc = "parse"
    /\ lineno > Len(lines)
    /\ pc' = IF script = "parse_structs" THEN "parsed" ELSE "main"
    /\ si' = IF script = "parse_structs" THEN si ELSE 1
    /\ ai' = IF script = "parse_structs" THEN ai ELSE 1
    /\ UNCHANGED <<script, decls, lines, lineno, found, struct_name, structs,
                   stack, out, accounts, lk, err>>

\* --------------------------------------- parse_structs on arbitrary text
\* 'pub struct Foo {\n'
L_struct_Foo ==
    <<"p","u","b"," ","s","t","r","u","c","t"," ","F","o","o"," ","{","\n">>
\* "pub struct Bar<'a> {\n"
L_struct_Bar_life ==
    <<"p","u","b"," ","s","t","r","u","c","t"," ","B","a","r","<","'","a",">"," ","{","\n">>
\* 'pub struct Bar { x: u64 }\n'
L_struct_Bar_inline ==
    <<"p","u","b"," ","s","t","r","u","c","t"," ","B","a","r"," ","{"," ","x",":"," ","u","6","4"," ","}","\n">>
\* '    pub a: u64,\n'
L_field_a ==
    <<" "," "," "," ","p","u","b"," ","a",":"," ","u","6","4",",","\n">>
\* "    pub b: Bar<'a>,\n"
L_field_b_life ==
    <<" "," "," "," ","p","u","b"," ","b",":"," ","B","a","r","<","'","a",">",",","\n">>
\* '}\n'
L_close ==
    <<"}","\n">>
\* '  }\n'
L_close_indented ==
    <<" "," ","}","\n">>
\* '    // c\n'
L_comment ==
    <<" "," "," "," ","/","/"," ","c","\n">>
\* '\n'
L_blank ==
    <<"\n">>

\* the lines a file handed to parse_structs is made of
ParseVocab ==
    {L_struct_Foo, L_struct_Bar_life, L_struct_Bar_inline, L_field_a,
     L_field_b_life, L_close, L_close_indented, L_comment, L_blank}

\* the variables a run of parse_structs alone leaves untouched
IdleRender ==
    /\ decls = <<>>
    /\ si = 0
    /\ ai = 0
    /\ stack = <<>>
    /\ out = <<>>
    /\ accounts = <<>>
    /\ lk = [which |-> "none", t |-> <<>>, n |-> <<>>, res |-> None]

InitParse ==
    /\ script = "parse_structs"
    /\ lines \in UNION {[1..n -> ParseVocab] : n \in 1..MaxLines}
    /\ lineno = 1
    /\ found = FALSE
    /\ struct_name = NoneVal
    /\ structs = <<>>
    /\ err = NoErr
    /\ pc = "parse"
    /\ IdleRender

NextParse ==
    \/ ParseLine
    \/ ParseReturn

SpecParse ==
    InitParse /\ [][NextParse]_vars

\* ------------------------------------------------------ camel_to_snake
UpperChars ==
    <<"A","B","C","D","E","F","G","H","I","J","K","L","M",
      "N","O","P","Q","R","S","T","U","V","W","X","Y","Z">>

LowerChars ==
    <<"a","b","c","d","e","f","g","h","i","j","k","l","m",
      "n","o","p","q","r","s","t","u","v","w","x","y","z">>

DigitChars ==
    {"0","1","2","3","4","5","6","7","8","9"}

IsUpper(c) ==
    c \in Range(UpperChars)

IsLower(c) ==
    c \in Range(LowerChars)

\* c.lower()
ToLower(c) ==
    IF IsUpper(c)
    THEN LowerChars[CHOOSE k \in 1..Len(UpperChars) : UpperChars[k] = c]
    ELSE c

\* length of the leading run of lower-case letters of s
RECURSIVE LowerRun(_)
LowerRun(s) ==
    IF s = <<>> \/ ~IsLower(Head(s)) THEN 0 ELSE 1 + LowerRun(Tail(s))

\* re.sub('(.)([A-Z][a-z]+)', r'\1_\2', s)
RECURSIVE SubWord(_)
SubWord(s) ==
    IF s = <<>> THEN <<>>
    ELSE IF /\ Len(s) >= 3
            /\ s[1] # "\n"
            /\ IsUpper(s[2])
            /\ IsLower(s[3])
    THEN LET q == 2 + LowerRun(Slice(s, 2, 0))
         IN  <<s[1], "_">> \o SubSeq(s, 2, q) \o SubWord(Slice(s, q, 0))
    ELSE <<s[1]>> \o SubWord(Tail(s))

\* re.sub('([a-z0-9])([A-Z])', r'\1_\2', s)
RECURSIVE SubHump(_)
SubHump(s) ==
    IF s = <<>> THEN <<>>
    ELSE IF /\ Len(s) >= 2
            /\ (IsLower(s[1]) \/ s[1] \in DigitChars)
            /\ IsUpper(s[2])
    THEN <<s[1], "_", s[2]>> \o SubHump(Slice(s, 2, 0))
    ELSE <<s[1]>> \o SubHump(Tail(s))

camel_to_snake(name) ==
    LET t == SubHump(SubWord(name))
    IN  [k \in 1..Len(t) |-> ToLower(t[k])]

\* ---------------------------------------------------------- the lookups
\* a fixed layout that gives u32 the width of u64
lookup_layout_js_api_wide_u32(t, n) ==
    IF t = T_u64 THEN Line("BufferLayout.blob", 8, n)
    ELSE IF t = T_Pubkey THEN Line("BufferLayout.blob", 32, n)
    ELSE IF t = T_bool THEN Line("BufferLayout.blob", 1, n)
    ELSE IF t = T_String THEN Line("BufferLayout.blob", 1, n)
    ELSE IF t = T_u32 THEN Line("BufferLayout.blob", 8, n)
    ELSE None

\* gen_js_api.py
lookup_layout_js_api(t, n) ==
    IF t = T_u64 THEN Line("BufferLayout.blob", 8, n)
    ELSE IF t = T_Pubkey THEN Line("BufferLayout.blob", 32, n)
    ELSE IF t = T_bool THEN Line("BufferLayout.blob", 1, n)
    ELSE IF t = T_String THEN Line("BufferLayout.blob", 1, n)
    ELSE IF t = T_u32 THEN Line("BufferLayout.blob", 4, n)
    ELSE None

\* a decoder that has no line for the padding
lookup_decoder_no_padding(t, n) ==
    IF t = T_u64 THEN Line("new BN", 0, n)
    ELSE IF t = T_Pubkey THEN Line("new PublicKey", 0, n)
    ELSE IF t = T_bool THEN Line("Boolean", 0, n)
    ELSE IF t = T_String THEN Line("String", 0, n)
    ELSE None

\* gen_js_api.py
lookup_decoder(t, n) ==
    IF t = T_u64 THEN Line("new BN", 0, n)
    ELSE IF t = T_Pubkey THEN Line("new PublicKey", 0, n)
    ELSE IF t = T_bool THEN Line("Boolean", 0, n)
    ELSE IF t = T_String THEN Line("String", 0, n)
    ELSE IF t = T_u32 THEN Blank
    ELSE None

\* gen_js_api.py
lookup_interface(t, n) ==
    IF t = T_u64 THEN Line(": BN;", 0, n)
    ELSE IF t = T_Pubkey THEN Line(": PublicKey;", 0, n)
    ELSE IF t = T_bool THEN Line(": boolean;", 0, n)
    ELSE IF t = T_String THEN Line(": string;", 0, n)
    ELSE IF t = T_u32 THEN Blank
    ELSE None

\* make_idl.py
lookup_layout_idl(t, n) ==
    IF t = T_u32 THEN Line("'u32'", 4, n)
    ELSE IF t = T_u64 THEN Line("'u64'", 8, n)
    ELSE IF t = T_Pubkey THEN Line("[32]", 32, n)
    ELSE IF t = T_bool THEN Line("'u8'", 1, n)
    ELSE IF t = T_String THEN Line("'string'", 0, n)
    ELSE None

\* generate_javascript.py
lookup_layout_javascript(t, n) ==
    IF t = T_u32 THEN Line("'u32'", 4, n)
    ELSE IF t = T_u64 THEN Line("'u64'", 8, n)
    ELSE IF t = T_f32 THEN Line("'f32'", 4, n)
    ELSE IF t = T_Pubkey THEN Line("[32]", 32, n)
    ELSE IF t = T_bool \/ t = T_u8 THEN Line("'u8'", 1, n)
    ELSE IF t = T_String THEN Line("'string'", 0, n)
    ELSE IF t = T_arr64 THEN Line("[64]", 64, n)
    ELSE IF t = T_arrmax THEN Line("[64]", 64, n)
    ELSE None

\* the lookup that the generate_* function of renderer r of script s calls
Lookup(s, r, t, n) ==
    IF r = "buflayout" THEN lookup_layout_js_api(t, n)
    ELSE IF r = "decoder" THEN lookup_decoder(t, n)
    ELSE IF r = "interface" THEN lookup_interface(t, n)
    ELSE IF s = "make_idl" THEN lookup_layout_idl(t, n)
    ELSE lookup_layout_javascript(t, n)

\* an exception that does not tell the type
UnknownTypeNoToken(r, t) ==
    [type |-> "Exception",
     text |-> "Unknown type",
     args |-> <<>>]

\* the text of the exception generate_* raises: the f-string and what it interpolates
UnknownType(r, t) ==
    [type |-> "Exception",
     text |-> IF r = "buflayout" THEN "Unknown buffer layout for {})"
              ELSE IF r = "decoder" THEN "Unknown decoder for {}"
              ELSE IF r = "interface" THEN "Unknown interface type for {}"
              ELSE "Unknown schema for {}",
     args |-> <<t>>]

\* what the interpreter raises when the call stack is full
RecursionError ==
    [type |-> "RecursionError",
     text |-> "maximum recursion depth exceeded",
     args |-> <<>>]

\* ------------------------------------------------------------ the drivers
\* the three generator scripts
Scripts ==
    {"gen_js_api", "make_idl", "generate_javascript"}

\* no script excludes a struct
skips_none(s) ==
    {}

\* the exclusion list of a script; generate_javascript.py has none
skips(s) ==
    IF s \in {"gen_js_api", "make_idl"}
    THEN {N_InitializeAccounts, N_WithdrawAccounts, N_CancelAccounts,
          N_TransferAccounts}
    ELSE {}

\* what main emits for each struct, in order
Artifacts(s) ==
    IF s = "gen_js_api" THEN <<"buflayout", "decoder", "interface">>
    ELSE <<"schema">>

\* what main prints before it reads src/state.rs; for generate_javascript.py
\* the text from "// data serialization" on (the program_instructions block
\* printed before it is the scan of SpecAccounts)
Preamble(s) ==
    IF s = "gen_js_api"
    THEN <<Line("const BufferLayout = require('buffer-layout');", 0, <<>>),
           Line("const { PublicKey } = require('@solana/web3.js');", 0, <<>>),
           Line("const anchor = require('@project-serum/anchor');", 0, <<>>),
           Line("const { BN } = anchor;", 0, <<>>),
           Line("const LE = \"le\"; //little endian", 0, <<>>)>>
    ELSE IF s = "make_idl"
    THEN <<Line("// Program interaction library ... class Struct extends Assignable {}", 0, <<>>)>>
    ELSE <<Line("// data serialization", 0, <<>>)>>

\* what main prints before it calls generate_* for struct i
Header(s, r, i) ==
    IF r = "buflayout"
    THEN <<Line("const {}Layout = BufferLayout.struct([", 0, i)>>
    ELSE IF r = "decoder"
    THEN <<Line("function decode_{}(buf) {", 0, camel_to_snake(i)),
           Line("let raw = {}Layout.decode(buf);", 0, i),
           Line("return {", 0, <<>>)>>
    ELSE IF r = "interface"
    THEN <<Line("interface {} {", 0, i)>>
    ELSE IF s = "make_idl"
    THEN <<Line("const {} = new Map([[Struct, {", 0, i),
           Line("kind: 'struct',", 0, <<>>),
           Line("fields: [", 0, <<>>)>>
    ELSE <<Line("class {}Struct extends Assignable {}", 0, i),
           Line("const {} = new Map([[{}Struct, {", 0, i),
           Line("kind: 'struct',", 0, <<>>),
           Line("fields: [", 0, <<>>)>>

\* what main prints after generate_* has returned
Footer(s, r) ==
    IF r = "buflayout" THEN <<Line("]);", 0, <<>>)>>
    ELSE IF r = "decoder" THEN <<Line("};}", 0, <<>>)>>
    ELSE IF r = "interface" THEN <<Line("}", 0, <<>>)>>
    ELSE <<Line("]", 0, <<>>), Line("}]]);", 0, <<>>)>>

\* a print that prints nothing
EmitNothing(o, d) ==
    o

\* print(...)
Emit(o, d) ==
    Append(o, d)

\* a loop that starts at the second field
CallSecond(st, name) ==
    Append(st, [name |-> name, k |-> 2])

\* generate_*(i[1]): a new frame, at the first field of the nested struct
Call(st, name) ==
    Append(st, [name |-> name, k |-> 1])

\* a loop that takes every other field
AdvanceTwo(st) ==
    [st EXCEPT ![Len(st)].k = @ + 2]

\* continue: the for loop of the running frame moves to its next field
Advance(st) ==
    [st EXCEPT ![Len(st)].k = @ + 1]

\* the nested generate_* returns and its caller continues
Return(st) ==
    Advance(SubSeq(st, 1, Len(st) - 1))

\* main: the first prints
MainBegin ==
    /\ pc = "start"
    /\ out' = out \o Preamble(script)
    /\ pc' = "parse"
    /\ UNCHANGED <<script, decls, lines, lineno, found, struct_name, structs,
                   si, ai, stack, accounts, lk, err>>

\* main: "if i in skips: continue"
SkipStruct ==
    /\ pc = "main"
    /\ si <= Len(structs)
    /\ structs[si].name \in skips(script)
    /\ si' = si + 1
    /\ UNCHANGED <<script, decls, lines, lineno, found, struct_name, structs,
                   ai, stack, out, accounts, lk, err, pc>>

\* main: the header of the next artifact of structs[si] is printed and
\* generate_* is called
BeginArtifact ==
    /\ pc = "main"
    /\ si <= Len(structs)
    /\ structs[si].name \notin skips(script)
    /\ out' = out \o Header(script, Artifacts(script)[ai], structs[si].name)
    /\ stack' = Call(stack, structs[si].name)
    /\ pc' = "gen"
    /\ UNCHANGED <<script, decls, lines, lineno, found, struct_name, structs,
                   si, ai, accounts, lk, err>>

\* generate_*: one iteration of "for i in structs[struct_name]"
GenField ==
    /\ pc = "gen"
    /\ stack[Len(stack)].k <= Len(Get(structs, stack[Len(stack)].name))
    /\ LET top == stack[Len(stack)]
           i   == Get(structs, top.name)[top.k]
           r   == Artifacts(script)[ai]
           bl  == Lookup(script, r, i[2], i[1])
       IN  IF Truthy(bl)
           THEN /\ out' = Emit(out, bl)
                /\ stack' = Advance(stack)
                /\ UNCHANGED <<err, pc>>
           ELSE IF Has(structs, i[2])
           THEN IF Len(stack) < RecursionLimit
                THEN /\ stack' = Call(stack, i[2])
                     /\ UNCHANGED <<out, err, pc>>
                ELSE /\ err' = RecursionError
                     /\ pc' = "aborted"
                     /\ UNCHANGED <<out, stack>>
           ELSE /\ err' = UnknownType(r, i[2])
                /\ pc' = "aborted"
                /\ UNCHANGED <<out, stack>>
    /\ UNCHANGED <<script, decls, lines, lineno, found, struct_name, structs,
                   si, ai, accounts, lk>>

\* generate_*: the for loop of a nested call is over
GenReturn ==
    /\ pc = "gen"
    /\ Len(stack) > 1
    /\ stack[Len(stack)].k > Len(Get(structs, stack[Len(stack)].name))
    /\ stack' = Return(stack)
    /\ UNCHANGED <<script, decls, lines, lineno, found, struct_name, structs,
                   si, ai, out, accounts, lk, err, pc>>

\* main: generate_* has returned, the closing text of the artifact is printed
EndArtifact ==
    /\ pc = "gen"
    /\ Len(stack) = 1
    /\ stack[1].k > Len(Get(structs, stack[1].name))
    /\ out' = out \o Footer(script, Artifacts(script)[ai])
    /\ stack' = <<>>
    /\ IF ai < Len(Artifacts(script))
       THEN ai' = ai + 1 /\ si' = si
       ELSE ai' = 1 /\ si' = si + 1
    /\ pc' = "main"
    /\ UNCHANGED <<script, decls, lines, lineno, found, struct_name, structs,
                   accounts, lk, err>>

\* main: "return 0"
MainReturn ==
    /\ pc = "main"
    /\ si > Len(structs)
    /\ pc' = "done"
    /\ UNCHANGED <<script, decls, lines, lineno, found, struct_name, structs,
                   si, ai, stack, out, accounts, lk, err>>

\* ------------------------------------------------- the text of src/state.rs
\* the structs src/state.rs declares, in the order it declares them
StructOrder ==
    <<N_Foo, N_CancelAccounts, N_Bar>>

\* the type tokens a field is declared with
TypeTokens ==
    {T_u64, T_u32, T_f128, N_CancelAccounts, N_Bar}

\* the k-th field of the file is named by the k-th letter
FieldLetters ==
    <<"a","b","c","d","e","f","g","h">>

\* the indices k of 1..n with ow[k] = s, in order
RECURSIVE Owned(_, _, _)
Owned(ow, s, k) ==
    IF k > Len(ow) THEN <<>>
    ELSE (IF ow[k] = s THEN <<k>> ELSE <<>>) \o Owned(ow, s, k + 1)

\* the declarations where field k has type ty[k] and lies in struct ow[k]
MkDecls(ty, ow) ==
    [s \in 1..Len(StructOrder) |->
        [name   |-> StructOrder[s],
         fields |-> LET ks == Owned(ow, s, 1)
                    IN  [j \in 1..Len(ks) |-> << <<FieldLetters[ks[j]]>>, ty[ks[j]] >>]]]

\* every file of at most MaxFields field lines
DeclSet ==
    UNION {
        {MkDecls(ty, ow) :
            ty \in [1..n -> TypeTokens],
            ow \in {f \in [1..n -> 1..Len(StructOrder)] :
                        \A k \in 1..n : k < n => f[k] <= f[k + 1]}}
        : n \in 0..MaxFields}

\* an account struct and a reference to it carry the lifetime <'a>
WithLifetime(t) ==
    IF t = N_CancelAccounts THEN t \o S_life ELSE t

\* the lines of one field list
RECURSIVE FieldLines(_)
FieldLines(fs) ==
    IF fs = <<>> THEN <<>>
    ELSE <<S_indent_pub \o fs[1][1] \o S_sep \o WithLifetime(fs[1][2]) \o S_comma_nl>>
         \o FieldLines(Tail(fs))

\* the lines that declare the structs d
RECURSIVE StructLines(_)
StructLines(d) ==
    IF d = <<>> THEN <<>>
    ELSE <<S_pub_struct_sp \o WithLifetime(d[1].name) \o S_open>>
         \o FieldLines(d[1].fields)
         \o <<L_close>>
         \o StructLines(Tail(d))

\* the lines of the file that declares d: a comment and a blank line lead
FileOf(d) ==
    <<L_comment, L_blank>> \o StructLines(d)

Init ==
    /\ script \in Scripts
    /\ decls \in DeclSet
    /\ lines = FileOf(decls)
    /\ lineno = 1
    /\ found = FALSE
    /\ struct_name = NoneVal
    /\ structs = <<>>
    /\ si = 0
    /\ ai = 0
    /\ stack = <<>>
    /\ out = <<>>
    /\ accounts = <<>>
    /\ lk = [which |-> "none", t |-> <<>>, n |-> <<>>, res |-> None]
    /\ err = NoErr
    /\ pc = "start"

Next ==
    \/ MainBegin
    \/ ParseLine
    \/ ParseReturn
    \/ SkipStruct
    \/ BeginArtifact
    \/ GenField
    \/ GenReturn
    \/ EndArtifact
    \/ MainReturn

Spec ==
    Init /\ [][Next]_vars

\* the scripts run to their end
SpecFair ==
    Spec /\ WF_vars(Next)

\* ------------------------------------------------- one call of a lookup
\* the five lookup functions of the three scripts
LookupNames ==
    {"gen_js_api.lookup_layout", "gen_js_api.lookup_decoder",
     "gen_js_api.lookup_interface", "make_idl.lookup_layout",
     "generate_javascript.lookup_layout"}

\* the type tokens a lookup is called with
LookupTokens ==
    {T_u64, T_u32, T_Pubkey, T_bool, T_u8, T_String, T_arr64, T_arrmax,
     T_f32, T_f128, N_Foo}

\* the field names a lookup is called with
LookupFields ==
    {<<"a">>, <<"b">>, <<"s","t","a","r","t","_","t","i","m","e">>}

\* the call which(t, n)
CallLookup(which, t, n) ==
    IF which = "gen_js_api.lookup_layout" THEN lookup_layout_js_api(t, n)
    ELSE IF which = "gen_js_api.lookup_decoder" THEN lookup_decoder(t, n)
    ELSE IF which = "gen_js_api.lookup_interface" THEN lookup_interface(t, n)
    ELSE IF which = "make_idl.lookup_layout" THEN lookup_layout_idl(t, n)
    ELSE lookup_layout_javascript(t, n)

\* the lookup returns
DoLookup ==
    /\ pc = "lookup"
    /\ lk' = [lk EXCEPT !.res = CallLookup(lk.which, lk.t, lk.n)]
    /\ pc' = "returned"
    /\ UNCHANGED <<script, decls, lines, lineno, found, struct_name, structs,
                   si, ai, stack, out, accounts, err>>

InitLookup ==
    /\ script = "lookup"
    /\ lk \in [which : LookupNames, t : LookupTokens, n : LookupFields,
               res : {None}]
    /\ decls = <<>>
    /\ lines = <<>>
    /\ lineno = 1
    /\ found = FALSE
    /\ struct_name = NoneVal
    /\ structs = <<>>
    /\ si = 0
    /\ ai = 0
    /\ stack = <<>>
    /\ out = <<>>
    /\ accounts = <<>>
    /\ err = NoErr
    /\ pc = "lookup"

NextLookup ==
    DoLookup

SpecLookup ==
    InitLookup /\ [][NextLookup]_vars

\* ------------------------------------------- parse_instruction_accounts
\* "pub struct CancelAccounts<'a> {\n"
A_struct_target ==
    <<"p","u","b"," ","s","t","r","u","c","t"," ","C","a","n","c","e","l","A","c","c","o","u","n","t","s","<","'","a",">"," ","{","\n">>
\* "pub struct CancelAccountsV2<'a> {\n"
A_struct_longer ==
    <<"p","u","b"," ","s","t","r","u","c","t"," ","C","a","n","c","e","l","A","c","c","o","u","n","t","s","V","2","<","'","a",">"," ","{","\n">>
\* "pub struct Other<'a> {\n"
A_struct_other ==
    <<"p","u","b"," ","s","t","r","u","c","t"," ","O","t","h","e","r","<","'","a",">"," ","{","\n">>
\* '    pub x: A, // [writable, signer]\n'
A_field_ws ==
    <<" "," "," "," ","p","u","b"," ","x",":"," ","A",","," ","/","/"," ","[","w","r","i","t","a","b","l","e",","," ","s","i","g","n","e","r","]","\n">>
\* '    pub y: A, // []\n'
A_field_none ==
    <<" "," "," "," ","p","u","b"," ","y",":"," ","A",","," ","/","/"," ","[","]","\n">>
\* '    pub z: A, // [signer]\n'
A_field_s ==
    <<" "," "," "," ","p","u","b"," ","z",":"," ","A",","," ","/","/"," ","[","s","i","g","n","e","r","]","\n">>
\* '    pub w: A, // [writable]\n'
A_field_w ==
    <<" "," "," "," ","p","u","b"," ","w",":"," ","A",","," ","/","/"," ","[","w","r","i","t","a","b","l","e","]","\n">>
\* 'true'
S_true ==
    <<"t","r","u","e">>
\* 'false'
S_false ==
    <<"f","a","l","s","e">>

\* one iteration of the for loop of parse_instruction_accounts over line i
parse_instruction_accounts_body(f, accs, i, target) ==
    LET isField == IsFieldLine(f, i)
        ln      == Slice(Strip(i), 4, 0)
        name    == Split(ln, S_sep)[1]
        cparts  == Split(ln, S_cmt_sp)
        attrs   == Slice(cparts[2], 1, 1)
        toks    == Split(attrs, S_comma_sp)
        isMut   == IF Strip(attrs) # <<>> /\ S_writable \in Range(toks)
                   THEN S_true ELSE S_false
        isSig   == IF Strip(attrs) # <<>> /\ S_signer \in Range(toks)
                   THEN S_true ELSE S_false
        accs1   == IF isField
                   THEN Append(accs, [name |-> name, isMut |-> isMut, isSigner |-> isSig])
                   ELSE accs
        f1      == IF StartsWith(i, S_pub_struct_sp \o target) THEN TRUE ELSE f
        f2      == IF StartsWith(i, S_close) THEN FALSE ELSE f1
    IN  IF isField /\ Len(cparts) < 2
        THEN [found |-> f, accounts |-> accs, err |-> IndexError]
        ELSE [found |-> f2, accounts |-> accs1, err |-> NoErr]

\* parse_instruction_accounts: the next line of the file is scanned
AccountLine ==
    /\ pc = "accounts"
    /\ lineno <= Len(lines)
    /\ LET r == parse_instruction_accounts_body(found, accounts, lines[lineno],
                                                struct_name)
       IN  /\ found' = r.found
           /\ accounts' = r.accounts
           /\ err' = r.err
           /\ pc' = IF r.err = NoErr THEN "accounts" ELSE "aborted"
           /\ lineno' = IF r.err = NoErr THEN lineno + 1 ELSE lineno
    /\ UNCHANGED <<script, decls, lines, struct_name, structs, si, ai, stack,
                   out, lk>>

\* the five lines printed for one account
AccountText(acc) ==
    <<Line("{", 0, <<>>),
      Line("\"name\": \"{}\",", 0, acc.name),
      Line("\"isMut\": {},", 0, acc.isMut),
      Line("\"isSigner\": {},", 0, acc.isSigner),
      Line("},", 0, <<>>)>>

RECURSIVE AccountsText(_)
AccountsText(accs) ==
    IF accs = <<>> THEN <<>>
    ELSE AccountText(accs[1]) \o AccountsText(Tail(accs))

\* parse_instruction_accounts: the scan is over, the accounts are printed
AccountsPrint ==
    /\ pc = "accounts"
    /\ lineno > Len(lines)
    /\ out' = out \o AccountsText(accounts)
    /\ pc' = "done"
    /\ UNCHANGED <<script, decls, lines, lineno, found, struct_name, structs,
                   si, ai, stack, accounts, lk, err>>

\* the lines an instruction file is made of
AccountVocab ==
    {A_struct_target, A_struct_longer, A_struct_other, A_field_ws, A_field_none,
     A_field_s, A_field_w, L_close, L_blank}

InitAccounts ==
    /\ script = "generate_javascript"
    /\ lines \in UNION {[1..n -> AccountVocab] : n \in 1..MaxAccountLines}
    /\ struct_name = N_CancelAccounts
    /\ lineno = 1
    /\ found = FALSE
    /\ structs = <<>>
    /\ err = NoErr
    /\ pc = "accounts"
    /\ IdleRender

NextAccounts ==
    \/ AccountLine
    \/ AccountsPrint

SpecAccounts ==
    InitAccounts /\ [][NextAccounts]_vars

\* ===================================================================
\* Properties
\* ===================================================================

\* the tokens every lookup of script s answers
Recognized(s) ==
    IF s = "generate_javascript"
    THEN {T_u32, T_u64, T_f32, T_Pubkey, T_bool, T_u8, T_String, T_arr64, T_arrmax}
    ELSE {T_u64, T_Pubkey, T_bool, T_String, T_u32}

\* the names src/state.rs declares
DeclNames ==
    {decls[k].name : k \in 1..Len(decls)}

\* the declared fields of struct `flds` onward, nested structs expanded in
\* place and depth first, down to d nested levels; ok is FALSE when the
\* expansion stops at a token that resolves to nothing or below level d
RECURSIVE Flatten(_, _, _)
Flatten(prim, flds, d) ==
    IF flds = <<>> THEN [seq |-> <<>>, ok |-> TRUE]
    ELSE IF flds[1][2] \in prim
    THEN LET rest == Flatten(prim, Tail(flds), d)
         IN  [seq |-> <<flds[1]>> \o rest.seq, ok |-> rest.ok]
    ELSE IF flds[1][2] \in DeclNames /\ d > 0
    THEN LET inner == Flatten(prim, Get(decls, flds[1][2]), d - 1)
         IN  IF ~inner.ok THEN inner
             ELSE LET rest == Flatten(prim, Tail(flds), d)
                  IN  [seq |-> inner.seq \o rest.seq, ok |-> rest.ok]
    ELSE [seq |-> <<>>, ok |-> FALSE]

\* the flat field list of a declared struct
ExpectedFields(s, name) ==
    Flatten(Recognized(s), Get(decls, name), RecursionLimit - 1)

\* a padding field: u32, in the decoder and the interface
Padding(r, f) ==
    r \in {"decoder", "interface"} /\ f[2] = T_u32

\* the names of a field list
NamesOfFields(fs) ==
    [j \in 1..Len(fs) |-> fs[j][1]]

\* the field names renderer r is to emit for a declared struct
ExpectedNames(s, r, name) ==
    NamesOfFields(SelectSeq(ExpectedFields(s, name).seq, LAMBDA f : ~Padding(r, f)))

\* the kinds of the lines that generate_* prints
FragmentKinds ==
    {"BufferLayout.blob", "new BN", "new PublicKey", "Boolean", "String",
     ": BN;", ": PublicKey;", ": boolean;", ": string;",
     "'u32'", "'u64'", "'f32'", "'u8'", "'string'", "[32]", "[64]", " "}

\* the kind of the first line of an artifact of renderer r
HeadKind(s, r) ==
    IF r = "buflayout" THEN "const {}Layout = BufferLayout.struct(["
    ELSE IF r = "decoder" THEN "function decode_{}(buf) {"
    ELSE IF r = "interface" THEN "interface {} {"
    ELSE IF s = "make_idl" THEN "const {} = new Map([[Struct, {"
    ELSE "class {}Struct extends Assignable {}"

\* the artifact of renderer r for struct i starts at line p of the output
IsStartAt(p, r, i) ==
    /\ out[p].kind = HeadKind(script, r)
    /\ p + Len(Header(script, r, i)) - 1 <= Len(out)
    /\ SubSeq(out, p, p + Len(Header(script, r, i)) - 1) = Header(script, r, i)

\* the length of the run of fragment lines of o from line p on
RECURSIVE BodyLen(_, _)
BodyLen(o, p) ==
    IF p > Len(o) \/ o[p].kind \notin FragmentKinds THEN 0
    ELSE 1 + BodyLen(o, p + 1)

\* the fragment lines of the artifact that starts at line p
Body(p, r, i) ==
    LET b == p + Len(Header(script, r, i))
    IN  SubSeq(out, b, b + BodyLen(out, b) - 1)

\* the artifact that starts at line p has its closing text
Closed(p, r, i) ==
    LET e == p + Len(Header(script, r, i)) + Len(Body(p, r, i))
        F == Footer(script, r)
    IN  e + Len(F) - 1 <= Len(out) /\ SubSeq(out, e, e + Len(F) - 1) = F

\* the field names carried by fragment lines; a line of blanks carries none
NamesOfLines(ls) ==
    LET named == SelectSeq(ls, LAMBDA l : l # Blank)
    IN  [j \in 1..Len(named) |-> named[j].name]

IsPrefix(a, b) ==
    Len(a) <= Len(b) /\ SubSeq(b, 1, Len(a)) = a

\* the run has left parse_structs behind
Parsed ==
    pc \in {"main", "gen", "done"} \/ (pc = "aborted" /\ si > 0)

\* generate_* is about to handle a field
AtField ==
    /\ pc = "gen"
    /\ stack # <<>>
    /\ stack[Len(stack)].k <= Len(Get(structs, stack[Len(stack)].name))

\* that field, <<name, type>>
CurField ==
    Get(structs, stack[Len(stack)].name)[stack[Len(stack)].k]

\* the renderer that is running
CurRenderer ==
    Artifacts(script)[ai]

\* C1: the registry holds every struct's fields as declared and in the order
\* declared, and in every artifact of every renderer the field names emitted
\* so far are a prefix of the declared order with nested structs expanded in
\* place, depth first, and padding left out; a closed artifact holds all of
\* them: nothing is reordered, duplicated or dropped.
C1_OrderPreserved ==
    /\ Parsed => structs = decls
    /\ \A p \in 1..Len(out) : \A r \in Range(Artifacts(script)) :
         \A k \in 1..Len(decls) :
            IsStartAt(p, r, decls[k].name) =>
                LET names == NamesOfLines(Body(p, r, decls[k].name))
                    exp   == ExpectedNames(script, r, decls[k].name)
                IN  /\ IsPrefix(names, exp)
                    /\ Closed(p, r, decls[k].name) => names = exp

\* Foo {a: Bar, b: ..}, Bar {c: u32} has been rendered to the end by gen_js_api
C1_Witness ==
    /\ pc = "done"
    /\ script = "gen_js_api"
    /\ Len(decls[1].fields) = 2
    /\ decls[1].fields[1][2] = N_Bar
    /\ decls[3].fields = << << <<"c">>, T_u32 >> >>

C3_PaddingLines ==
    [][(AtField /\ CurField[2] = T_u32)
        => /\ CurRenderer \in {"decoder", "interface"}
                => out' = Append(out, Blank)
           /\ CurRenderer = "buflayout"
                => out' = Append(out, Line("BufferLayout.blob", 4, CurField[1]))
           /\ CurRenderer = "schema"
                => out' = Append(out, Line("'u32'", 4, CurField[1]))]_vars

\* the decoder has just printed its line of blanks
C3_Witness ==
    /\ pc = "gen"
    /\ CurRenderer = "decoder"
    /\ out # <<>>
    /\ out[Len(out)] = Blank

\* C3 (as claimed): the decoder and the interface print no line at all.
C3_AsClaimed ==
    [][(AtField /\ CurField[2] = T_u32)
        => /\ CurRenderer \in {"decoder", "interface"} => out' = out
           /\ CurRenderer = "buflayout"
                => out' = Append(out, Line("BufferLayout.blob", 4, CurField[1]))
           /\ CurRenderer = "schema"
                => out' = Append(out, Line("'u32'", 4, CurField[1]))]_vars

\* the struct reference graph of src/state.rs
Refs(n) ==
    {f[2] : f \in Range(Get(decls, n))} \cap DeclNames

RECURSIVE ReachN(_, _)
ReachN(X, k) ==
    IF k = 0 THEN X ELSE ReachN(X \cup UNION {Refs(n) : n \in X}, k - 1)

\* the structs reached from n by one reference or more
ReachPlus(n) ==
    ReachN(Refs(n), Len(decls))

\* n lies on a cycle, or leads to one
ReachesCycle(n) ==
    \E m \in ReachPlus(n) \cup {n} : m \in ReachPlus(m)

Acyclic ==
    \A n \in DeclNames : n \notin ReachPlus(n)

AllResolve ==
    \A n \in DeclNames : \A f \in Range(Get(decls, n)) :
        f[2] \in Recognized(script) \/ f[2] \in DeclNames

\* the type the field named n is declared with (field names are unique)
DeclType(n) ==
    LET k == CHOOSE k \in 1..Len(decls) :
                \E f \in Range(decls[k].fields) : f[1] = n
        f == CHOOSE f \in Range(decls[k].fields) : f[1] = n
    IN  f[2]

\* every named line of the output stands for a field of a primitive type
FlatOut ==
    \A p \in 1..Len(out) :
        (out[p].kind \in FragmentKinds /\ out[p] # Blank)
            => DeclType(out[p].name) \in Recognized(script)

\* no artifact of a struct that leads to a cycle is ever closed
NoCyclicCompletes ==
    \A p \in 1..Len(out) : \A r \in Range(Artifacts(script)) :
        \A k \in 1..Len(decls) :
            (IsStartAt(p, r, decls[k].name) /\ Closed(p, r, decls[k].name))
                => ~ReachesCycle(decls[k].name)

\* the steps generate_* has yet to take for the fields fs: one for a field
\* of a primitive type; for a nested struct the call, its fields, the return
RECURSIVE FieldsWork(_, _)
FieldsWork(fs, d) ==
    IF fs = <<>> THEN 0
    ELSE (IF fs[1][2] \notin Recognized(script) /\ fs[1][2] \in DeclNames /\ d > 0
          THEN 2 + FieldsWork(Get(decls, fs[1][2]), d - 1)
          ELSE 1)
         + FieldsWork(Tail(fs), d)

\* the steps of one artifact: its header, its fields, its closing text
ArtifactWork(name) ==
    2 + FieldsWork(Get(decls, name), Len(decls))

\* the steps of main for the structs from the j-th on
RECURSIVE RestWork(_)
RestWork(j) ==
    IF j > Len(decls) THEN 0
    ELSE (IF decls[j].name \in skips(script) THEN 1
          ELSE Len(Artifacts(script)) * ArtifactWork(decls[j].name))
         + RestWork(j + 1)

\* the steps left to the frames 1..j of the call stack: the running frame
\* resumes at its field k, a calling frame after it, and each has to return
RECURSIVE StackWork(_)
StackWork(j) ==
    IF j = 0 THEN 0
    ELSE LET flds == Get(decls, stack[j].name)
             from == IF j = Len(stack) THEN stack[j].k ELSE stack[j].k + 1
         IN  FieldsWork(SubSeq(flds, from, Len(flds)), Len(decls)) + 1
             + StackWork(j - 1)

\* the number of steps the run has yet to take when nothing stops it
Rank ==
    IF pc = "start" THEN Len(lines) + 3 + RestWork(1)
    ELSE IF pc = "parse" THEN Len(lines) - lineno + 3 + RestWork(1)
    ELSE IF pc = "main"
    THEN (IF si > Len(decls) THEN 0
          ELSE IF decls[si].name \in skips(script) THEN 1
          ELSE (Len(Artifacts(script)) - ai + 1) * ArtifactWork(decls[si].name))
         + RestWork(si + 1) + 1
    ELSE IF pc = "gen"
    THEN StackWork(Len(stack))
         + (Len(Artifacts(script)) - ai) * ArtifactWork(decls[si].name)
         + RestWork(si + 1) + 1
    ELSE 0

\* the run is not stopped: it is at its end, or at a place where the guard
\* of one of its actions holds
Progressing ==
    /\ Rank >= 0
    /\ Rank = 0 <=> pc = "done"
    /\ \/ pc \in {"done", "start", "parse", "main"}
       \/ pc = "gen" /\ stack # <<>> /\ Has(structs, stack[Len(stack)].name)

\* C5: the output never holds an entry for a struct-typed field; when the
\* reference graph is acyclic and every token resolves the run is never
\* stopped and every step brings it one step nearer to its end, so it
\* terminates; a struct that lies on or leads to a cycle never has an
\* artifact completed.
C5_Expansion ==
    /\ [](FlatOut /\ NoCyclicCompletes /\ ((Acyclic /\ AllResolve) => Progressing))
    /\ [][(Acyclic /\ AllResolve) => Rank' = Rank - 1]_vars

\* Foo -> CancelAccounts -> Bar, three levels deep, rendered to the end
C5_Witness ==
    /\ pc = "done"
    /\ script = "generate_javascript"
    /\ decls[1].fields = << << <<"a">>, N_CancelAccounts >> >>
    /\ decls[2].fields = << << <<"b">>, N_Bar >> >>
    /\ decls[3].fields = << << <<"c">>, T_u64 >> >>

\* the names on the exclusion lists of gen_js_api.py and make_idl.py
ExclusionList ==
    {N_InitializeAccounts, N_WithdrawAccounts, N_CancelAccounts,
     N_TransferAccounts}

\* the kinds of the first line of an artifact
HeaderKinds ==
    {"const {}Layout = BufferLayout.struct([", "let raw = {}Layout.decode(buf);",
     "interface {} {", "const {} = new Map([[Struct, {",
     "class {}Struct extends Assignable {}"}

\* the names of the fields declared in an excluded struct
ExcludedFieldNames ==
    UNION {{f[1] : f \in Range(decls[k].fields)} :
            k \in {j \in 1..Len(decls) : decls[j].name \in ExclusionList}}

\* C7 (as amended): gen_js_api and make_idl never print an artifact header
\* for a struct named on the exclusion list; generate_javascript has no
\* exclusion list and a run of it that reaches its end has printed the
\* header of every struct.  (The fields of an excluded struct are still
\* printed inside the artifact of a struct that refers to it.)
C7_Exclusion ==
    /\ script \in {"gen_js_api", "make_idl"}
         => \A p \in 1..Len(out) :
               out[p].kind \in HeaderKinds => out[p].name \notin ExclusionList
    /\ (script = "generate_javascript" /\ pc = "done")
         => \A n \in DeclNames : \E p \in 1..Len(out) : IsStartAt(p, "schema", n)

\* gen_js_api has printed a field of CancelAccounts inside another artifact
C7_Witness ==
    /\ script = "gen_js_api"
    /\ pc = "done"
    /\ \E p \in 1..Len(out) :
         out[p].kind \in FragmentKinds /\ out[p].name \in ExcludedFieldNames

\* C7 (as claimed): in every driver an excluded struct has no header and
\* none of its fields is anywhere in the output.
C7_AsClaimed ==
    \A p \in 1..Len(out) :
        /\ out[p].kind \in HeaderKinds => out[p].name \notin ExclusionList
        /\ out[p].kind \in FragmentKinds => out[p].name \notin ExcludedFieldNames

\* the lines generate_* prints for a flat field list
FragmentLines(s, r, fs) ==
    [j \in 1..Len(fs) |-> Lookup(s, r, fs[j][2], fs[j][1])]

\* the complete artifact of renderer r for a declared struct
ArtifactText(s, r, name) ==
    Header(s, r, name)
        \o FragmentLines(s, r, ExpectedFields(s, name).seq)
        \o Footer(s, r)

\* the first n artifacts of a declared struct
RECURSIVE StructText(_, _, _)
StructText(s, name, n) ==
    IF n = 0 THEN <<>>
    ELSE StructText(s, name, n - 1) \o ArtifactText(s, Artifacts(s)[n], name)

\* all artifacts of the first j declared structs, the excluded ones left out
RECURSIVE EmittedText(_, _)
EmittedText(s, j) ==
    IF j = 0 THEN <<>>
    ELSE EmittedText(s, j - 1)
         \o (IF decls[j].name \in skips(s) THEN <<>>
             ELSE StructText(s, decls[j].name, Len(Artifacts(s))))

\* C10: when the rendering of struct S stops at an unknown type, the output
\* is: the complete artifacts of every struct before S, then the header of
\* S's artifact and the fragments of the fields before the unknown one,
\* nested fields included; no closing text of that artifact and nothing of
\* a later struct.
C10_NonTransactional ==
    (pc = "aborted" /\ err.type = "Exception")
        => /\ ~ExpectedFields(script, decls[si].name).ok
           /\ out = Preamble(script)
                      \o EmittedText(script, si - 1)
                      \o StructText(script, decls[si].name, ai - 1)
                      \o Header(script, CurRenderer, decls[si].name)
                      \o FragmentLines(script, CurRenderer,
                                       ExpectedFields(script, decls[si].name).seq)

\* Foo complete, then Bar stopped at its second field, after a nested one
C10_Witness ==
    /\ pc = "aborted"
    /\ err.type = "Exception"
    /\ script = "gen_js_api"
    /\ si = 3
    /\ Len(decls[3].fields) = 2
    /\ decls[3].fields[1][2] = N_CancelAccounts
    /\ Len(decls[2].fields) = 1
    /\ decls[2].fields[1][2] = T_u32

\* the primitive tokens of the type table
TableTokens ==
    {T_u64, T_u32, T_Pubkey, T_bool, T_u8, T_String, T_arr64}

\* the tokens every lookup knows
CommonTokens ==
    {T_u64, T_u32, T_Pubkey, T_bool, T_String}

\* the byte width the type table gives a token of fixed width
TableWidth(t) ==
    IF t = T_u64 THEN 8
    ELSE IF t = T_u32 THEN 4
    ELSE IF t = T_Pubkey THEN 32
    ELSE IF t = T_arr64 THEN 64
    ELSE 1

\* C4 (as amended): every lookup answers u64, u32, Pubkey, bool and String
\* with a descriptor that carries the field name or is the line of blanks;
\* the fixed-layout lookup gives u64 8 bytes, u32 4, Pubkey 32, bool 1 and
\* String 1 (so bool and String share a width); u8 and [u8; 64] are known
\* to the schema lookup of generate_javascript.py alone and get None from
\* the four other lookups.
C4_Lookups ==
    pc = "returned" =>
        /\ lk.t \in CommonTokens
             => /\ lk.res # None
                /\ lk.res.name = lk.n \/ lk.res = Blank
        /\ (lk.which = "gen_js_api.lookup_layout" /\ lk.t \in CommonTokens)
             => /\ lk.res.kind = "BufferLayout.blob"
                /\ lk.res.w = TableWidth(lk.t)
        /\ lk.t \in {T_u8, T_arr64}
             => (lk.res # None <=> lk.which = "generate_javascript.lookup_layout")

\* the fixed-layout lookup has answered u8 with None
C4_Witness ==
    /\ pc = "returned"
    /\ lk.which = "gen_js_api.lookup_layout"
    /\ lk.t = T_u8
    /\ lk.res = None

\* C4 (as claimed): every lookup answers every token of the table, the
\* fixed-layout lookup with the width of the table, and no two tokens of the
\* table have the same width.
C4_AsClaimed ==
    pc = "returned" =>
        /\ lk.t \in TableTokens => lk.res # None
        /\ (lk.which = "gen_js_api.lookup_layout" /\ lk.t \in TableTokens \ {T_String})
             => lk.res.w = TableWidth(lk.t)
        /\ \A t1, t2 \in TableTokens :
             t1 # t2 => lookup_layout_js_api(t1, lk.n).w # lookup_layout_js_api(t2, lk.n).w

\* the struct a struct-start line declares
DeclaredName(i) ==
    StripLifetime(SplitWS(i)[3])

\* the attribute tokens of the trailing "// [...]" of a field line
AttrTokens(i) ==
    LET c == Split(Strip(i), S_cmt_sp)[2]
    IN  Split(Slice(c, 1, 1), S_comma_sp)

\* the descriptors of the field lines of ls that lie in the body of the
\* struct named target; inside tells whether ls starts in that body
RECURSIVE ExpectedAccounts(_, _, _)
ExpectedAccounts(ls, inside, target) ==
    IF ls = <<>> THEN <<>>
    ELSE LET i == ls[1]
             isField == /\ inside
                        /\ ~StartsWith(Strip(i), S_comment)
                        /\ ~StartsWith(Strip(i), S_close)
                        /\ ~StartsWith(i, S_pub_struct)
             next == IF StartsWith(i, S_close) THEN FALSE
                     ELSE IF StartsWith(i, S_pub_struct)
                     THEN DeclaredName(i) = target
                     ELSE inside
         IN  (IF isField
              THEN <<[name     |-> Split(Slice(Strip(i), 4, 0), S_sep)[1],
                      isMut    |-> IF S_writable \in Range(AttrTokens(i))
                                   THEN S_true ELSE S_false,
                      isSigner |-> IF S_signer \in Range(AttrTokens(i))
                                   THEN S_true ELSE S_false]>>
              ELSE <<>>)
             \o ExpectedAccounts(Tail(ls), next, target)

\* C6: what parse_instruction_accounts prints is one descriptor for each
\* field line in the body of the struct named struct_name, in the order
\* declared, isMut true exactly for 'writable' and isSigner exactly for
\* 'signer'; the fields of any other struct yield no descriptor.
C6_AsClaimed ==
    pc = "done" => out = AccountsText(ExpectedAccounts(lines, FALSE, struct_name))

\* parse_structs is about to scan a line
AtLine ==
    pc = "parse" /\ lineno <= Len(lines)

\* that line
CurLine ==
    lines[lineno]

\* the number of ': ' in the text the field branch takes from line i
SepCount(i) ==
    Len(Split(Slice(Strip(i), 4, 1), S_sep)) - 1

\* every struct of the registry but those named in ns is as it was
OthersKept(ns) ==
    \A k \in 1..Len(structs) :
        structs[k].name \notin ns
            => /\ Has(structs', structs[k].name)
               /\ Get(structs', structs[k].name) = structs[k].fields

\* one field more at the end of the struct named n, the others as they were
Appended(n) ==
    /\ Has(structs', n)
    /\ Len(Get(structs', n)) = Len(Get(structs, n)) + 1
    /\ IsPrefix(Get(structs, n), Get(structs', n))

\* C8 (as amended): a 'pub struct' line met inside a struct is first taken
\* as a field line.  Unless the text taken from it holds exactly one ': '
\* the run ends there with the ValueError of the unpacking and the registry
\* is left as it was.  If it does, that text is appended as a field to the
\* struct that was open; then the new name is registered with an empty
\* field list and becomes the open struct, so that later field lines go to
\* it; the fields of the struct that was open are kept when the new name
\* differs from its name.
C8_StartInsideStruct ==
    [][(AtLine /\ found /\ StartsWith(CurLine, S_pub_struct))
        => IF SepCount(CurLine) # 1
           THEN /\ pc' = "aborted"
                /\ err'.type = "ValueError"
                /\ structs' = structs
           ELSE /\ pc' = "parse"
                /\ found'
                /\ struct_name' = DeclaredName(CurLine)
                /\ Has(structs', struct_name')
                /\ Get(structs', struct_name') = <<>>
                /\ struct_name' # struct_name => Appended(struct_name)
                /\ OthersKept({struct_name, struct_name'})]_vars

\* Foo was open with one field when 'pub struct Bar { x: u64 }' came: Foo
\* has got a second field, Bar has got the field line that followed
C8_Witness ==
    /\ pc = "parsed"
    /\ Len(structs) = 2
    /\ structs[1].name = N_Foo
    /\ Len(structs[1].fields) = 2
    /\ structs[2].name = N_Bar
    /\ Len(structs[2].fields) = 1

\* C8 (as claimed): the scan goes on without error, the new name is
\* registered with an empty list, the fields of the struct that was open
\* are as they were.
C8_AsClaimed ==
    [][(AtLine /\ found /\ StartsWith(CurLine, S_pub_struct))
        => /\ pc' = "parse"
           /\ err' = NoErr
           /\ Has(structs', struct_name')
           /\ Get(structs', struct_name') = <<>>
           /\ struct_name' # struct_name
                => Get(structs', struct_name) = Get(structs, struct_name)]_vars

\* C9 (as amended): inside a struct a line that is neither a comment nor a
\* closing marker is taken as a field declaration.  If it holds no ': ' (a
\* blank line too) the run ends there with the ValueError of the unpacking,
\* whose message holds nothing of the line, and the registry is left as it
\* was; if the run goes on, the line has been appended as a field to the
\* open struct: it is never skipped.
C9_FieldLineWithoutSep ==
    [][(AtLine /\ found /\ ~StartsWith(Strip(CurLine), S_comment)
               /\ ~StartsWith(Strip(CurLine), S_close))
        => /\ ~Contains(CurLine, S_sep)
                => /\ pc' = "aborted"
                   /\ err'.type = "ValueError"
                   /\ err'.args = <<>>
                   /\ structs' = structs
           /\ (pc' = "parse" /\ ~StartsWith(CurLine, S_pub_struct))
                => /\ struct_name' = struct_name
                   /\ Appended(struct_name)
                   /\ OthersKept({struct_name})]_vars

\* a blank line inside a struct has ended the run
C9_Witness ==
    /\ pc = "aborted"
    /\ err.type = "ValueError"
    /\ found
    /\ lines[lineno] = L_blank

\* C9 (as claimed): the error names the offending line.
C9_AsClaimed ==
    [][(AtLine /\ found /\ ~StartsWith(Strip(CurLine), S_comment)
               /\ ~StartsWith(Strip(CurLine), S_close)
               /\ ~Contains(CurLine, S_sep))
        => /\ pc' = "aborted"
           /\ \E a \in Range(err'.args) :
                a # <<>> /\ Contains(CurLine, a)]_vars

====
